---- MODULE Spec2Model ----
(***************************************************************************)
(* The sidebar row of one view (src/unnamed/part_000): inline rename with  *)
(* validation, the debounced click that opens the view, the cooldown flag  *)
(* set when editing stops, and the action menu with its metadata refetch.  *)
(*                                                                         *)
(* Time.  The click debounce (line 86) and the cooldown timeout (line 187) *)
(* are both setTimeout calls with the same delay, so pending timers fire   *)
(* in the order they were registered.  `timers` is that queue: firing the  *)
(* head is the moment 250 ms after its registration; "less than 250 ms     *)
(* after X" is "the timer registered at X is still in the queue".          *)
(***************************************************************************)
EXTENDS Naturals, Sequences, FiniteSets

VARIABLES
  title,            \* vModel.value.title, the title of the view the row shows
  isEditing,        \* ref, line 72
  isStopped,        \* ref, line 76
  _title,           \* ref, line 79: the draft bound to the rename input
  isDropdownOpen,   \* ref, line 70
  isMobileMode,     \* useGlobal().isMobileMode, line 45
  uiAllowed,        \* isUIAllowed('viewCreateOrEdit'), line 47
  isLocked,         \* inject(IsLockedInj), line 61
  inputFocused,     \* the rename input holds focus: its blur is still to come
  timers,           \* pending setTimeout callbacks, oldest first
  pendingMeta,      \* getMeta calls in flight
  injectedTable,    \* ref, line 56: 0 is props.table, n the result of call n
  out,              \* what the last handler emitted, called and showed
  last,             \* the event delivered last
  burstChangeViews, \* changeView events since the current run of rapid clicks began
  value,            \* SelectField: props.value, Select.vue line 3
  mode,             \* SelectField: props.mode, Select.vue line 5
  loading,          \* SelectField: props.loading, Select.vue line 12
  selectOut         \* SelectField: what the last event made it emit

\* the sidebar row
rowVars == <<title, isEditing, isStopped, _title, isDropdownOpen, isMobileMode,
             uiAllowed, isLocked, inputFocused, timers, pendingMeta,
             injectedTable, out, last, burstChangeViews>>
\* the select field, a component of its own
selectVars == <<value, mode, loading, selectOut>>

vars == <<title, isEditing, isStopped, _title, isDropdownOpen, isMobileMode,
          uiAllowed, isLocked, inputFocused, timers, pendingMeta,
          injectedTable, out, last, burstChangeViews,
          value, mode, loading, selectOut>>

----------------------------------------------------------------------------
(* Bounds *)

\* exits from editing whose cooldown timeout may be pending at once
MaxStopTimers == 2
\* getMeta calls that may be in flight at once
MaxFetch == 1
\* the same, where the menu's refetches are what is studied
MaxMenuFetch == 2

----------------------------------------------------------------------------
(* Values *)

\* ref<string | undefined>() before the first assignment
Undefined == "<undefined>"
\* what the user can leave in the rename input
Drafts == {"", "Grid 1", "Grid 2"}
\* the title the parent passes in
InitialTitles == {"Grid 1"}
\* onValidate returns true or a message
VTrue == "true"
ValidatorResults == {VTrue, "Name already exists"}

Ev(e, x, y) == [ev |-> e, a |-> x, b |-> y]
StopTimer == [kind |-> "stop", cooldown |-> FALSE]
ClickTimer(c) == [kind |-> "click", cooldown |-> c]

\* the events of kind e in a handler's output
Of(o, e) == SelectSeq(o, LAMBDA r : r.ev = e)
Stops(q) == SelectSeq(q, LAMBDA t : t.kind = "stop")
Clicks(q) == SelectSeq(q, LAMBDA t : t.kind = "click")

----------------------------------------------------------------------------
(* The component's state as one value, so that handlers compose *)

Comp ==
  [title |-> title, isEditing |-> isEditing, isStopped |-> isStopped,
   _title |-> _title, isDropdownOpen |-> isDropdownOpen,
   inputFocused |-> inputFocused, timers |-> timers,
   pendingMeta |-> pendingMeta, injectedTable |-> injectedTable,
   out |-> <<>>, burstChangeViews |-> burstChangeViews]

Becomes(s) ==
  /\ title' = s.title
  /\ isEditing' = s.isEditing
  /\ isStopped' = s.isStopped
  /\ _title' = s._title
  /\ isDropdownOpen' = s.isDropdownOpen
  /\ inputFocused' = s.inputFocused
  /\ timers' = s.timers
  /\ pendingMeta' = s.pendingMeta
  /\ injectedTable' = s.injectedTable
  /\ out' = s.out
  /\ burstChangeViews' = s.burstChangeViews
  /\ UNCHANGED <<isMobileMode, uiAllowed, isLocked>>
  /\ UNCHANGED selectVars

Emit(s, e) == [s EXCEPT !.out = Append(@, e)]

----------------------------------------------------------------------------
(* Handlers, as functions from the state before to the state after *)

\* the timeout's callback leaving the flag set
StopTimeoutFired_LeavesFlag(s) == s

\* setTimeout(() => { isStopped.value = false }, 250), lines 185-187
StopTimeoutFired(s) == [s EXCEPT !.isStopped = FALSE]

\* onStopEdit leaving the draft in place
onStopEdit_KeepsDraft(s) ==
  [s EXCEPT !.isStopped = TRUE,
            !.isEditing = FALSE,
            !.timers = Append(@, StopTimer)]

\* lines 180-188
onStopEdit(s) ==
  [s EXCEPT !.isStopped = TRUE,
            !.isEditing = FALSE,
            !._title = "",
            !.timers = Append(@, StopTimer)]

\* onCancel without line 173
onCancel_Unguarded(s) == onStopEdit(s)

\* lines 172-177
onCancel(s) == IF ~s.isEditing THEN s ELSE onStopEdit(s)

\* the test of line 150 passing every answer
Rejected_Never(isValid) == FALSE

\* line 150: isValid !== true
Rejected(isValid) == isValid # VTrue

\* the test of line 157 without its second operand
NothingToRename_OnlyEmptyTitle(s) == s.title = ""

\* line 157: vModel.value.title === '' || vModel.value.title === _title.value
NothingToRename(s) == s.title = "" \/ s.title = s._title

\* onRename making the test of line 157 before asking the validator
onRename_TestsBeforeValidating(s, isValid) ==
  LET closed == [s EXCEPT !.isDropdownOpen = FALSE]
      asked == Emit(closed, Ev("onValidate", closed._title, isValid))
  IN  IF ~closed.isEditing THEN closed
      ELSE IF NothingToRename(closed)
        THEN onCancel(asked)
      ELSE IF Rejected(isValid)
        THEN onCancel(Emit(asked, Ev("message.error", isValid, "")))
      ELSE LET originalTitle == asked.title
               newTitle == IF asked._title = Undefined THEN "" ELSE asked._title
               renamed == [asked EXCEPT !.title = newTitle]
           IN  onStopEdit(Emit(renamed, Ev("rename", renamed.title, originalTitle)))

\* lines 144-169; isValid is what props.onValidate returns for the candidate
\* (the view with its title replaced by the draft)
onRename(s, isValid) ==
  LET closed == [s EXCEPT !.isDropdownOpen = FALSE]
      asked == Emit(closed, Ev("onValidate", closed._title, isValid))
  IN  IF ~closed.isEditing THEN closed
      ELSE IF Rejected(isValid)
        THEN onCancel(Emit(asked, Ev("message.error", isValid, "")))
      ELSE IF NothingToRename(asked)
        THEN onCancel(asked)
      ELSE LET originalTitle == asked.title
               newTitle == IF asked._title = Undefined THEN "" ELSE asked._title
               renamed == [asked EXCEPT !.title = newTitle]
           IN  onStopEdit(Emit(renamed, Ev("rename", renamed.title, originalTitle)))

\* lines 110-115
onKeyEnter(s, isValid) == onRename(s, isValid)

\* lines 118-123
onKeyEsc(s) == onCancel(s)

\* lines 125-129: the window-level Enter listener
onKeyStrokeEnter(s, isValid) ==
  IF s.isEditing THEN onKeyEnter(s, isValid) ELSE s

\* onDblClick without line 95
onDblClick_KeepsDraft(s, mobile, allowed) ==
  IF mobile THEN s
  ELSE IF ~allowed THEN s
  ELSE IF ~s.isEditing
    THEN Emit([s EXCEPT !.isEditing = TRUE, !.inputFocused = TRUE],
              Ev("$e", "c:view:rename", ""))
    ELSE s

\* onDblClick without line 91
onDblClick_IgnoresRole(s, mobile, allowed) ==
  IF mobile THEN s
  ELSE IF ~s.isEditing
    THEN Emit([s EXCEPT !.isEditing = TRUE,
                        !._title = s.title,
                        !.inputFocused = TRUE],
              Ev("$e", "c:view:rename", ""))
    ELSE s

\* lines 89-98
onDblClick(s, mobile, allowed) ==
  IF mobile THEN s
  ELSE IF ~allowed THEN s
  ELSE IF ~s.isEditing
    THEN Emit([s EXCEPT !.isEditing = TRUE,
                        !._title = s.title,
                        !.inputFocused = TRUE],
              Ev("$e", "c:view:rename", ""))
    ELSE s

\* onRenameMenuClick without the test of line 134
onRenameMenuClick_Restarts(s, mobile, allowed) ==
  IF mobile \/ ~allowed THEN s
  ELSE Emit([s EXCEPT !.isEditing = TRUE,
                      !._title = s.title,
                      !.inputFocused = TRUE],
            Ev("$e", "c:view:rename", ""))

\* lines 131-139
onRenameMenuClick(s, mobile, allowed) ==
  IF mobile \/ ~allowed THEN s
  ELSE IF ~s.isEditing
    THEN Emit([s EXCEPT !.isEditing = TRUE,
                        !._title = s.title,
                        !.inputFocused = TRUE],
              Ev("$e", "c:view:rename", ""))
    ELSE s

\* the debounced body reading isEditing alone
onClickFired_IgnoresStopped(s) ==
  IF s.isEditing THEN s
  ELSE Emit([s EXCEPT !.burstChangeViews = IF @ < 2 THEN @ + 1 ELSE @],
            Ev("changeView", s.title, ""))

\* the debounced body, lines 83-85
onClickFired(s) ==
  IF s.isEditing \/ s.isStopped THEN s
  ELSE Emit([s EXCEPT !.burstChangeViews = IF @ < 2 THEN @ + 1 ELSE @],
            Ev("changeView", s.title, ""))

\* a timeout per click, none dropped
onClick_NoDebounce(s) ==
  [s EXCEPT !.timers = Append(@, ClickTimer(s.isStopped /\ ~s.isEditing)),
            !.burstChangeViews = IF Clicks(s.timers) = <<>> THEN 0 ELSE @]

\* useDebounceFn(..., 250), lines 82-86: a call drops the pending timeout and
\* registers a new one; a run of rapid clicks continues while one is pending
onClick(s) ==
  [s EXCEPT !.timers = Append(Stops(@), ClickTimer(s.isStopped /\ ~s.isEditing)),
            !.burstChangeViews = IF Clicks(s.timers) = <<>> THEN 0 ELSE @]

\* lines 190-194
onDelete(s) ==
  Emit([s EXCEPT !.isDropdownOpen = FALSE], Ev("delete", s.title, ""))

\* the watcher without line 197: a refetch on every change of isDropdownOpen
watchDropdown_OnEveryChange(s, was, id) ==
  IF s.isDropdownOpen = was THEN s
  ELSE Emit([s EXCEPT !.pendingMeta = @ \cup {id}], Ev("getMeta", "table", ""))

\* watch(isDropdownOpen), lines 196-200, up to the await: `was` is the value
\* before the handler ran, `id` the getMeta call started
watchDropdown(s, was, id) ==
  IF s.isDropdownOpen = was \/ ~s.isDropdownOpen THEN s
  ELSE Emit([s EXCEPT !.pendingMeta = @ \cup {id}], Ev("getMeta", "table", ""))

\* line 199 after the await: the result is stored
metaResolved(s, id) ==
  [s EXCEPT !.pendingMeta = @ \ {id}, !.injectedTable = id]

----------------------------------------------------------------------------
(* SelectField, packages/nc-gui/components/nc/Select.vue *)

\* the values a parent binds and a user picks: one option, or a list of them
SelectValues == {"grid", "form", "kanban", "[]", "[grid]", "[grid,form]"}
SelectModes == {Undefined, "multiple", "tags"}

\* the setter of useVModel(props, 'value', emits), line 37: it emits and
\* stores nothing, the parent owns the value
vModelSet(o, v) == Append(o, Ev("update:value", v, ""))

\* onChange emitting nothing
onChange_Silent(o, v) == o

\* lines 39-41 (the name onChange is the source's)
onChange(o, v) == Append(o, Ev("change", v, ""))

----------------------------------------------------------------------------
(* The state machine *)

Init ==
  /\ title \in InitialTitles
  /\ isEditing = FALSE
  /\ isStopped = FALSE
  /\ _title = Undefined
  /\ isDropdownOpen = FALSE
  /\ isMobileMode \in BOOLEAN
  /\ uiAllowed \in BOOLEAN
  /\ isLocked \in BOOLEAN
  /\ inputFocused = FALSE
  /\ timers = <<>>
  /\ pendingMeta = {}
  /\ injectedTable = 0
  /\ out = <<>>
  /\ last = "setup"
  /\ burstChangeViews = 0
  /\ value = Undefined
  /\ mode = Undefined
  /\ loading = FALSE
  /\ selectOut = <<>>

FreeFetches == (1..MaxFetch) \ pendingMeta
NewFetch == IF FreeFetches = {} THEN 0 ELSE CHOOSE i \in FreeFetches : \A j \in FreeFetches : i <= j

\* a handler has run to its end: the watcher of isDropdownOpen runs, then the
\* component is in the state the handler left
Handled(event, s) ==
  /\ (s.isDropdownOpen /\ ~isDropdownOpen) => FreeFetches # {}
  /\ Becomes(watchDropdown(s, isDropdownOpen, NewFetch))
  /\ last' = event

\* the same with MaxMenuFetch calls allowed in flight
MenuFreeFetches == (1..MaxMenuFetch) \ pendingMeta
MenuNewFetch ==
  IF MenuFreeFetches = {} THEN 0
  ELSE CHOOSE i \in MenuFreeFetches : \A j \in MenuFreeFetches : i <= j
MenuHandled(event, s) ==
  /\ (s.isDropdownOpen /\ ~isDropdownOpen) => MenuFreeFetches # {}
  /\ Becomes(watchDropdown(s, isDropdownOpen, MenuNewFetch))
  /\ last' = event

\* an entry into editing is held back while MaxStopTimers cooldowns are pending
MayEnter == isEditing \/ Len(Stops(timers)) < MaxStopTimers

\* the a-input exists while isEditing (line 235); the NcDropdown while
\* ~isEditing /\ ~isLocked (line 259), its overlay while isDropdownOpen
InputShown == isEditing
MenuButtonShown == ~isEditing /\ ~isLocked
MenuShown == MenuButtonShown /\ isDropdownOpen

\* @click="onClick", line 212
Click == Handled("Click", onClick(Comp))

\* @dblclick.stop="onDblClick", line 211
DblClick == MayEnter /\ Handled("DblClick", onDblClick(Comp, isMobileMode, uiAllowed))

\* v-model:value="_title", line 237
Type == InputShown /\ \E d \in Drafts : d # _title /\ Handled("Type", [Comp EXCEPT !._title = d])

\* @keydown.stop with Enter, lines 243, 101-106: the event stops at the input
KeyDownEnter == InputShown /\ \E v \in ValidatorResults : Handled("KeyDownEnter", onKeyEnter(Comp, v))

\* @keydown.stop with Escape, lines 243, 101-106
KeyDownEsc == Handled("KeyDownEsc", onKeyEsc(Comp))

\* an Enter press anywhere else on the page reaches the window listener only
KeyStrokeEnter == \E v \in ValidatorResults : Handled("KeyStrokeEnter", onKeyStrokeEnter(Comp, v))

\* one Enter press delivered to the input's handler and then to the window listener
KeyEnterBoth ==
  InputShown /\ \E v, w \in ValidatorResults :
    Handled("KeyEnterBoth", onKeyStrokeEnter(onKeyEnter(Comp, v), w))

\* @blur="onRename", line 242: the input loses focus, by the user or by being
\* taken out of the page after an exit from editing
Blur ==
  inputFocused /\ \E v \in ValidatorResults :
    Handled("Blur", onRename([Comp EXCEPT !.inputFocused = FALSE], v))

\* the oldest pending timeout is a cooldown's
StopTimeout ==
  /\ timers # <<>> /\ Head(timers).kind = "stop"
  /\ Handled("StopTimeout", StopTimeoutFired([Comp EXCEPT !.timers = Tail(@)]))

\* the oldest pending timeout is the click debounce
ClickTimeout ==
  /\ timers # <<>> /\ Head(timers).kind = "click"
  /\ Handled("ClickTimeout", onClickFired([Comp EXCEPT !.timers = Tail(@)]))

\* @click.stop="isDropdownOpen = !isDropdownOpen", line 269
ToggleDropdown == MenuButtonShown /\ Handled("ToggleDropdown", [Comp EXCEPT !.isDropdownOpen = ~@])

\* line 269 again, with MaxMenuFetch calls allowed in flight
MenuToggleDropdown ==
  MenuButtonShown /\ MenuHandled("ToggleDropdown", [Comp EXCEPT !.isDropdownOpen = ~@])

\* @close-modal="isDropdownOpen = false", line 280
MenuCloseModal == MenuShown /\ Handled("MenuCloseModal", [Comp EXCEPT !.isDropdownOpen = FALSE])

\* @rename="onRenameMenuClick", line 281
MenuRename == MenuShown /\ MayEnter /\ Handled("MenuRename", onRenameMenuClick(Comp, isMobileMode, uiAllowed))

\* @delete="onDelete", line 282
MenuDelete == MenuShown /\ Handled("MenuDelete", onDelete(Comp))

\* a getMeta call resolves
MetaResolves == \E id \in pendingMeta : Handled("MetaResolves", metaResolved(Comp, id))

\* the layout, the actor's role or the ancestor's lock changes
SetEnv ==
  /\ \/ isMobileMode' = ~isMobileMode /\ UNCHANGED <<uiAllowed, isLocked>>
     \/ uiAllowed' = ~uiAllowed /\ UNCHANGED <<isMobileMode, isLocked>>
     \/ isLocked' = ~isLocked /\ UNCHANGED <<isMobileMode, uiAllowed>>
  /\ out' = <<>>
  /\ last' = "SetEnv"
  /\ UNCHANGED <<title, isEditing, isStopped, _title, isDropdownOpen, inputFocused,
                 timers, pendingMeta, injectedTable, burstChangeViews>>
  /\ UNCHANGED selectVars

Next ==
  \/ Click
  \/ DblClick
  \/ Type
  \/ KeyDownEnter
  \/ KeyDownEsc
  \/ KeyStrokeEnter
  \/ KeyEnterBoth
  \/ Blur
  \/ StopTimeout
  \/ ClickTimeout
  \/ ToggleDropdown
  \/ MenuCloseModal
  \/ MenuRename
  \/ MenuDelete
  \/ MetaResolves
  \/ SetEnv

Spec == Init /\ [][Next]_vars


\* the row on a desktop layout, for an actor with the role, not locked
DesktopInit == Init /\ ~isMobileMode /\ uiAllowed /\ ~isLocked

\* the row as DesktopInit leaves it, with nothing said of the select field
DesktopRow ==
  /\ title \in InitialTitles
  /\ isEditing = FALSE /\ isStopped = FALSE /\ _title = Undefined
  /\ isDropdownOpen = FALSE
  /\ isMobileMode = FALSE /\ uiAllowed = TRUE /\ isLocked = FALSE
  /\ inputFocused = FALSE /\ timers = <<>>
  /\ pendingMeta = {} /\ injectedTable = 0
  /\ out = <<>> /\ last = "setup" /\ burstChangeViews = 0

\* every event of the row but the menu button and a change of layout, role or lock
RowNext ==
  \/ Click
  \/ DblClick
  \/ Type
  \/ KeyDownEnter
  \/ KeyDownEsc
  \/ KeyStrokeEnter
  \/ KeyEnterBoth
  \/ Blur
  \/ StopTimeout
  \/ ClickTimeout
  \/ MenuCloseModal
  \/ MenuRename
  \/ MenuDelete
  \/ MetaResolves

DesktopNext == RowNext \/ ToggleDropdown

\* the browser runs a timeout that is due: the oldest pending one fires
FairSpec ==
  DesktopInit /\ [][DesktopNext]_vars /\ WF_vars(StopTimeout) /\ WF_vars(ClickTimeout)

MenuNext == RowNext \/ MenuToggleDropdown

\* the row with up to MaxMenuFetch metadata refetches in flight
MenuSpec == DesktopInit /\ [][MenuNext]_vars

----------------------------------------------------------------------------
(* SelectField's state machine *)

SelectInit ==
  /\ DesktopRow
  /\ value \in SelectValues \cup {Undefined}
  /\ mode \in SelectModes
  /\ loading \in BOOLEAN
  /\ selectOut = <<>>

\* the a-select reports a new value, lines 46 and 57: v-model:value assigns
\* vModel, @change calls onChange; :disabled="loading", line 48
SelectChange ==
  /\ ~loading
  /\ \E v \in SelectValues :
       /\ v # value
       /\ selectOut' = onChange(vModelSet(<<>>, v), v)
  /\ UNCHANGED <<value, mode, loading>>
  /\ UNCHANGED rowVars

\* the parent passes another value, lines 2-3
ParentSetsValue ==
  /\ \E v \in SelectValues \cup {Undefined} : v # value /\ value' = v
  /\ selectOut' = <<>>
  /\ UNCHANGED <<mode, loading>>
  /\ UNCHANGED rowVars

\* the parent passes another mode or toggles loading, lines 5 and 12
ParentSetsProps ==
  /\ \/ (\E m \in SelectModes : m # mode /\ mode' = m) /\ UNCHANGED loading
     \/ loading' = ~loading /\ UNCHANGED mode
  /\ selectOut' = <<>>
  /\ UNCHANGED value
  /\ UNCHANGED rowVars

SelectNext == SelectChange \/ ParentSetsValue \/ ParentSetsProps

SelectSpec == SelectInit /\ [][SelectNext]_vars

TypeOK ==
  /\ title \in Drafts
  /\ isEditing \in BOOLEAN /\ isStopped \in BOOLEAN
  /\ _title \in Drafts \cup {Undefined}
  /\ isDropdownOpen \in BOOLEAN /\ inputFocused \in BOOLEAN
  /\ Len(timers) <= MaxStopTimers + 1
  /\ pendingMeta \subseteq 1..MaxFetch
  /\ injectedTable \in 0..MaxFetch
  /\ burstChangeViews \in 0..2

----------------------------------------------------------------------------
(* Vocabulary of the properties *)

\* the events that deliver a submit: Enter to the input, Enter to the window
\* listener, one Enter to both, and the input's blur
Submits == {"KeyDownEnter", "KeyStrokeEnter", "KeyEnterBoth", "Blur"}
Entries == {"DblClick", "MenuRename"}
Renames(o) == Of(o, "rename")
Errors(o) == Of(o, "message.error")
ChangeViews(o) == Of(o, "changeView")
Asked(o) == Of(o, "onValidate")

\* this step is a submit made while editing
SubmitStep == isEditing /\ last' \in Submits
\* ... for which the validator returned r for the candidate (view with title := draft)
SubmitStepWith(r) == SubmitStep /\ Asked(out') = <<Ev("onValidate", _title, r)>>

----------------------------------------------------------------------------
(* C1 *)

\* C1: a submit while editing of a draft D that is non-empty, differs from the
\* view's title T and passes the validator emits exactly one rename event, with
\* the view's title now D and the previous title T, however the submit is delivered.
C1_ExactlyOneRename ==
  [][(SubmitStepWith(VTrue) /\ _title # "" /\ _title # title)
       => (Renames(out') = <<Ev("rename", _title, title)>> /\ title' = _title)]_vars

\* C1 restricted to a view whose title is not empty: what the code does keep
C1_ExactlyOneRenameOfTitledView ==
  [][(SubmitStepWith(VTrue) /\ _title # "" /\ _title # title /\ title # "")
       => (Renames(out') = <<Ev("rename", _title, title)>> /\ title' = _title)]_vars

----------------------------------------------------------------------------
(* C2 *)

\* C2: a submit while editing with the empty draft emits no rename event,
\* whatever the view's title and the validator's answer, and leaves isEditing false.
C2_EmptyDraftNeverRenames ==
  [][(SubmitStep /\ _title = "") => (Renames(out') = <<>> /\ ~isEditing')]_vars

----------------------------------------------------------------------------
(* C3 *)

\* C3: when the validator returns something other than true at a submit made
\* while editing, exactly one error notification with the returned message is
\* shown, no rename is emitted, the view's title is unchanged, and the row leaves
\* editing through the cancel path (isEditing false, draft cleared, cooldown begun).
C3_InvalidDraftCancelsWithMessage ==
  [][\A r \in ValidatorResults \ {VTrue} :
       SubmitStepWith(r)
         => /\ Errors(out') = <<Ev("message.error", r, "")>>
            /\ Renames(out') = <<>>
            /\ title' = title
            /\ ~isEditing' /\ _title' = ""
            /\ isStopped' /\ timers' = Append(timers, StopTimer)]_vars

C3_Witness ==
  /\ last \in Submits
  /\ \E d \in Drafts : \E r \in ValidatorResults \ {VTrue} :
       out = <<Ev("onValidate", d, r), Ev("message.error", r, "")>>
  /\ ~isEditing /\ _title = ""

----------------------------------------------------------------------------
(* C4 *)

\* C4: a submit while editing with the draft equal to the view's current title
\* emits no rename event, whatever the validator returns.
C4_UnchangedDraftNeverRenames ==
  [][(SubmitStep /\ _title = title) => Renames(out') = <<>>]_vars

\* an unchanged, non-empty draft was submitted and passed the validator
C4_Witness ==
  /\ last \in Submits
  /\ title # ""
  /\ out = <<Ev("onValidate", title, VTrue)>>
  /\ ~isEditing

----------------------------------------------------------------------------
(* C5 *)

\* C5 as stated: a submit of an empty or unchanged draft shows no error
\* notification, whatever the validator returns for the candidate.
C5_EmptyOrUnchangedShowsNoError ==
  [][(SubmitStep /\ (_title = "" \/ _title = title)) => Errors(out') = <<>>]_vars

\* C5 amended: the validator is asked first, also for an empty or unchanged
\* draft.  Such a submit shows no error notification exactly when the validator
\* returns true; when it returns a message, that message is shown once and the
\* edit is cancelled.  An unchanged draft emits no rename event in either case.
C5_EmptyOrUnchangedErrorIffInvalid ==
  [][(SubmitStep /\ (_title = "" \/ _title = title))
       => \E r \in ValidatorResults :
            /\ Asked(out') = <<Ev("onValidate", _title, r)>>
            /\ (r = VTrue => Errors(out') = <<>>)
            /\ (r # VTrue => Errors(out') = <<Ev("message.error", r, "")>>
                             /\ Renames(out') = <<>>)
            /\ (_title = title => Renames(out') = <<>>)
            /\ ~isEditing']_vars

\* an unchanged draft was submitted, the validator returned a message, it was shown
C5_Witness ==
  /\ last \in Submits
  /\ \E r \in ValidatorResults \ {VTrue} :
       out = <<Ev("onValidate", title, r), Ev("message.error", r, "")>>
  /\ ~isEditing

----------------------------------------------------------------------------
(* C6 *)

\* C6: in every reachable state where isEditing is false the draft holds no
\* text: it is undefined (never edited) or the empty string (cleared on exit).
C6_DraftEmptyWhenNotEditing == ~isEditing => _title \in {Undefined, ""}

\* the row has just left editing, by a commit, a cancel or Escape
C6_Witness ==
  /\ last \in Submits \cup {"KeyDownEsc"}
  /\ isStopped /\ ~isEditing /\ _title = ""
  /\ timers # <<>>

----------------------------------------------------------------------------
(* C7 *)

\* this step runs the debounced body of the click whose timeout is the oldest
ClickFires == last' = "ClickTimeout" /\ timers # <<>> /\ Head(timers).kind = "click"

\* C7 as stated: a click made during the cooldown window (isStopped set, not
\* editing) produces no changeView event when its debounce ends.
C7_ClickMadeInCooldownNeverOpens ==
  [][(ClickFires /\ Head(timers).cooldown) => ChangeViews(out') = <<>>]_vars

\* C7 amended: a click whose 250 ms debounce ends during the cooldown window
\* (while isStopped is set) produces no changeView event.  The flags are read
\* when the debounce ends, not when the click is made.
C7_ClickFiringInCooldownNeverOpens ==
  [][(ClickFires /\ isStopped) => ChangeViews(out') = <<>>]_vars

\* a debounce has just ended inside a cooldown window
C7_Witness ==
  /\ last = "ClickTimeout"
  /\ isStopped /\ ~isEditing
  /\ out = <<>>

----------------------------------------------------------------------------
(* C8 *)

\* C8: a run of clicks each less than 250 ms after the previous one emits at
\* most one changeView in all; a click emits nothing by itself and leaves one
\* debounce pending; when the debounce ends the row emits exactly one changeView
\* carrying the current view if it is Idle, and none if it is editing or in cooldown.
C8_ClickDebounce ==
  /\ [](burstChangeViews <= 1 /\ Len(Clicks(timers)) <= 1)
  /\ [][last' = "Click" => (out' = <<>> /\ Len(Clicks(timers')) = 1)]_vars
  /\ [][ClickFires
          => /\ Clicks(timers') = <<>>
             /\ ChangeViews(out') =
                  IF isEditing \/ isStopped THEN <<>>
                  ELSE <<Ev("changeView", title, "")>>]_vars

\* a click's debounce has ended with the row Idle and opened the view once
C8_Witness ==
  /\ last = "ClickTimeout"
  /\ burstChangeViews = 1
  /\ out = <<Ev("changeView", title, "")>>

----------------------------------------------------------------------------
(* C9 *)

\* C9: every transition into editing is made by a double-click or by the
\* menu's rename item and sets the draft to the view's title at that moment:
\* right after entry isEditing is true and _title = title.
C9_EntryCopiesTitle ==
  [][(~isEditing /\ isEditing')
       => (last' \in Entries /\ _title' = title /\ title' = title)]_vars

C9_Witness ==
  /\ last \in Entries
  /\ isEditing /\ _title = title
  /\ out = <<Ev("$e", "c:view:rename", "")>>

----------------------------------------------------------------------------
(* C10 *)

\* C10: on mobile layout, or for an actor without viewCreateOrEdit, a
\* double-click and the menu's rename item leave isEditing, the draft and
\* telemetry untouched; editing is entered only off mobile and with the
\* permission; and a rename event comes only out of editing.
C10_NoEntryOnMobileOrWithoutRole ==
  /\ [][(last' \in Entries /\ (isMobileMode \/ ~uiAllowed))
          => (isEditing' = isEditing /\ _title' = _title /\ out' = <<>>)]_vars
  /\ [][(~isEditing /\ isEditing') => (~isMobileMode /\ uiAllowed)]_vars
  /\ [][Renames(out') # <<>> => isEditing]_vars

\* a double-click or rename-item selection has just been refused
C10_Witness ==
  /\ last \in Entries
  /\ isMobileMode \/ ~uiAllowed
  /\ ~isEditing /\ out = <<>>

----------------------------------------------------------------------------
(* C11 *)

\* C11: while the ancestor's locked flag is set, no event takes the row into
\* editing and no rename event is emitted.
C11_LockedNeverEditsOrRenames ==
  [][(isLocked /\ isLocked')
       => ((~isEditing => ~isEditing') /\ Renames(out') = <<>>)]_vars

----------------------------------------------------------------------------
(* C12 *)

\* what Escape must leave alone when the row is not editing
RowState == <<title, isEditing, isStopped, _title, isDropdownOpen, inputFocused,
              timers, pendingMeta, injectedTable>>

\* C12: Escape while editing discards the draft whatever it holds: the validator
\* is not asked, nothing is shown or emitted, the view's title is unchanged and
\* the row moves to cooldown.  Escape while not editing changes nothing and
\* starts no cooldown.
C12_EscapeDiscards ==
  [][last' = "KeyDownEsc"
       => /\ out' = <<>>
          /\ title' = title
          /\ IF isEditing
               THEN /\ ~isEditing' /\ _title' = ""
                    /\ isStopped' /\ timers' = Append(timers, StopTimer)
               ELSE UNCHANGED RowState]_vars

\* Escape has just been pressed and the row is in cooldown, its draft cleared
C12_Witness ==
  /\ last = "KeyDownEsc"
  /\ ~isEditing /\ isStopped /\ _title = ""
  /\ out = <<>>
  /\ Len(timers) >= 1 /\ timers[Len(timers)].kind = "stop"

----------------------------------------------------------------------------
(* C13 *)

\* C13: the cooldown always ends.  isStopped is set only while a cooldown
\* timeout is pending, so once the pending timeouts have fired it is false and,
\* with no edit under way, the row is Idle; and since a due timeout fires,
\* isStopped set leads to isStopped cleared.
C13_CooldownEnds ==
  /\ [](Stops(timers) = <<>> => ~isStopped)
  /\ (isStopped ~> ~isStopped)

\* a cooldown has just ended and left the row Idle with nothing pending
C13_Witness ==
  /\ last = "StopTimeout"
  /\ ~isStopped /\ ~isEditing
  /\ timers = <<>>

----------------------------------------------------------------------------
(* C16 *)

\* C16: a click whose 250 ms debounce is still pending when editing ends emits
\* no changeView when the debounce ends, after any sequence of earlier edits.
\* When the click's timeout is the oldest, every cooldown timeout still pending
\* was registered after the click: an edit ended while the debounce was pending.
C16_ClickPendingAtExitNeverOpens ==
  [][(ClickFires /\ Stops(timers) # <<>>) => ChangeViews(out') = <<>>]_vars

----------------------------------------------------------------------------
(* C17 *)

\* C17: isStopped is not reset earlier than 250 ms after the latest exit from
\* editing: when it is reset, no cooldown timeout of a later exit is pending.
C17_CooldownLastsFromLatestExit ==
  [][(isStopped /\ ~isStopped') => Stops(timers') = <<>>]_vars

----------------------------------------------------------------------------
(* C18 *)

\* C18: the row is in exactly one of Idle, Editing, CooldownAfterEdit:
\* isEditing and isStopped are never both true, and editing is entered only
\* from Idle.
C18_OneStateAtATime ==
  /\ [](~(isEditing /\ isStopped))
  /\ [][(~isEditing /\ isEditing') => ~isStopped]_vars

----------------------------------------------------------------------------
(* C19 *)

Telemetry(o) == Of(o, "$e")

\* C19: a double-click or rename-item selection made while editing changes
\* nothing: the draft typed so far is kept, isEditing stays true, no telemetry
\* is sent; c:view:rename is sent exactly once per entry into editing and at no
\* other time.  The menu is not shown while editing, so its handler is also
\* applied to every editing state reached.
C19_EntryWhileEditingIsNoOp ==
  /\ [][(last' \in Entries /\ isEditing)
          => (out' = <<>> /\ isEditing' /\ UNCHANGED RowState)]_vars
  /\ [](isEditing => \A m, a \in BOOLEAN :
          /\ onDblClick(Comp, m, a) = Comp
          /\ onRenameMenuClick(Comp, m, a) = Comp)
  /\ [][Telemetry(out') =
          IF ~isEditing /\ isEditing'
            THEN <<Ev("$e", "c:view:rename", "")>> ELSE <<>>]_vars

\* a double-click has just been ignored while a typed draft was in the input
C19_Witness ==
  /\ last = "DblClick"
  /\ isEditing /\ _title # title
  /\ ~isMobileMode /\ uiAllowed
  /\ out = <<>>

----------------------------------------------------------------------------
(* C14 *)

Fetches(o) == Of(o, "getMeta")

\* C14: each change of the menu from closed to open starts exactly one
\* getMeta call for the table and does nothing else; no other step starts one,
\* closing included.  When a call resolves its result is stored in
\* injectedTable whether the menu is open or not, so of two calls in flight the
\* one that resolves last is the one kept.
C14_MenuOpenRefetches ==
  /\ [][IF ~isDropdownOpen /\ isDropdownOpen'
          THEN /\ out' = <<Ev("getMeta", "table", "")>>
               /\ \E id \in (1..MaxMenuFetch) \ pendingMeta :
                    pendingMeta' = pendingMeta \cup {id}
               /\ injectedTable' = injectedTable
          ELSE /\ Fetches(out') = <<>>
               /\ pendingMeta' \subseteq pendingMeta
               /\ (last' # "MetaResolves"
                     => (pendingMeta' = pendingMeta /\ injectedTable' = injectedTable))]_vars
  /\ [][last' = "MetaResolves"
          => /\ \E id \in pendingMeta :
                  injectedTable' = id /\ pendingMeta' = pendingMeta \ {id}
             /\ isDropdownOpen' = isDropdownOpen
             /\ out' = <<>>]_vars

\* call 2 was started while call 1 was in flight and has resolved first, with
\* the menu closed by now: its result is stored, call 1 will overwrite it
C14_Witness ==
  /\ last = "MetaResolves"
  /\ ~isDropdownOpen
  /\ pendingMeta = {1}
  /\ injectedTable = 2

----------------------------------------------------------------------------
(* C15 *)

\* C15: every value change of the select makes SelectField emit exactly one
\* update:value and exactly one change, both with the new value, and nothing
\* else; a step that is no value change emits nothing.
C15_SelectEmitsBoth ==
  [][IF value' = value /\ mode' = mode /\ loading' = loading
       THEN \E v \in SelectValues \ {value} :
              /\ Of(selectOut', "update:value") = <<Ev("update:value", v, "")>>
              /\ Of(selectOut', "change") = <<Ev("change", v, "")>>
              /\ Len(selectOut') = 2
       ELSE selectOut' = <<>>]_vars

C15_Witness ==
  /\ ~loading
  /\ selectOut = <<Ev("update:value", "form", ""), Ev("change", "form", "")>>
  /\ value = "grid"

====
